---- MODULE Spec2Model ----
(***************************************************************************)
(* Rule engine of rule_based_system.py: the operator registry OPS,         *)
(* evaluate_condition, rule_matches, run_rules and the evaluation step of  *)
(* the page script (rules payload with fallback to DEFAULT_RULES).         *)
(*                                                                         *)
(* A call ends in one of three ways: it returns True, returns False, or    *)
(* raises.  These outcomes are the strings "true", "false" and "raise".    *)
(***************************************************************************)
EXTENDS Integers, Sequences, FiniteSets, TLC

VARIABLES
    facts,      \* the fact mapping handed to the engine
    cond,       \* argument of the last evaluate_condition call
    ecOut,      \* its outcome: "none" before any call
    rule,       \* argument of the last rule_matches call
    rmOut,      \* its outcome
    payload,    \* what the rules text area holds: "list", "not_list", "bad_json"
    rules,      \* the parsed list when payload = "list"
    status,     \* outcome of the last run_rules call: "none", "ok", "raise"
    action,     \* the action it returned
    fired       \* the fired list it returned, as positions in the input list

vars == <<facts, cond, ecOut, rule, rmOut, payload, rules, status, action, fired>>

(***************************************************************************)
(* Bounds of the model.                                                    *)
(***************************************************************************)
MaxNum == 2
MaxConds == 3
MaxRules == 3

(***************************************************************************)
(* Python values.  Every value is a record of the same shape:              *)
(*   t  the type: "num", "str", "null" or "list"                           *)
(*   n  the number (numbers are kept in tenths where decimals occur)       *)
(*   s  the text of a string                                               *)
(*   e  the elements of a list (scalars)                                   *)
(***************************************************************************)
Num(n) == [t |-> "num", n |-> n, s |-> "", e |-> <<>>]
Str(s) == [t |-> "str", n |-> 0, s |-> s, e |-> <<>>]
Null == [t |-> "null", n |-> 0, s |-> "", e |-> <<>>]
List(e) == [t |-> "list", n |-> 0, s |-> "", e |-> e]

\* Lists and dicts cannot be hashed: using one as a dict key raises TypeError.
Hashable(v) == v.t # "list"

\* The one-character strings that meet a predicate, in code point order.
Chars == <<"a", "b">>

CharRank(s) == CHOOSE i \in 1..Len(Chars) : Chars[i] = s

\* Outcome of a predicate: "T", "F", or "E" when it raises.
Truth(b) == IF b THEN "T" ELSE "F"

Negate(r) == IF r = "E" THEN "E" ELSE IF r = "T" THEN "F" ELSE "T"

IntCompare(sym, a, b) ==
    CASE sym = ">" -> a > b
      [] sym = ">=" -> a >= b
      [] sym = "<" -> a < b
      [] sym = "<=" -> a <= b

\* Ordering of two scalars: numbers with numbers, strings with strings,
\* anything else is a TypeError.
ScalarCompare(sym, a, b) ==
    IF a.t = "num" /\ b.t = "num" THEN Truth(IntCompare(sym, a.n, b.n))
    ELSE IF a.t = "str" /\ b.t = "str"
        THEN Truth(IntCompare(sym, CharRank(a.s), CharRank(b.s)))
    ELSE "E"

\* Ordering of two lists: the first position where they differ decides,
\* and the lengths decide when there is none.
ListCompare(sym, a, b) ==
    LET m == IF Len(a) < Len(b) THEN Len(a) ELSE Len(b)
        diff == {i \in 1..m : a[i] # b[i]}
    IN IF diff = {} THEN Truth(IntCompare(sym, Len(a), Len(b)))
       ELSE LET i == CHOOSE k \in diff : \A j \in diff : k <= j
            IN ScalarCompare(sym, a[i], b[i])

\* operator.gt, operator.ge, operator.lt, operator.le
PyCompare(sym, a, b) ==
    IF a.t = "list" /\ b.t = "list" THEN ListCompare(sym, a.e, b.e)
    ELSE ScalarCompare(sym, a, b)

\* operator.eq: values of different types are unequal, never an error.
PyEq(a, b) == Truth(a = b)

\* a in b
PyIn(a, b) ==
    IF b.t = "list" THEN Truth(\E i \in 1..Len(b.e) : b.e[i] = a)
    ELSE IF b.t = "str" THEN (IF a.t = "str" THEN Truth(a.s = b.s) ELSE "E")
    ELSE "E"

PyNotInLenient(a, b) == IF PyIn(a, b) = "T" THEN "F" ELSE "T"

\* a not in b
PyNotIn(a, b) == Negate(PyIn(a, b))

\* The keys of OPS.
OpSymbols == {"==", "!=", ">", ">=", "<", "<=", "in", "not_in"}

OPS == {Str(sym) : sym \in OpSymbols}

ApplyOpSwapped(op, a, b) ==
    CASE op.s = "==" -> PyEq(b, a)
      [] op.s = "!=" -> Negate(PyEq(b, a))
      [] op.s \in {">", ">=", "<", "<="} -> PyCompare(op.s, b, a)
      [] op.s = "in" -> PyIn(b, a)
      [] op.s = "not_in" -> PyNotIn(b, a)

\* OPS[op](a, b)
ApplyOp(op, a, b) ==
    CASE op.s = "==" -> PyEq(a, b)
      [] op.s = "!=" -> Negate(PyEq(a, b))
      [] op.s \in {">", ">=", "<", "<="} -> PyCompare(op.s, a, b)
      [] op.s = "in" -> PyIn(a, b)
      [] op.s = "not_in" -> PyNotIn(a, b)

(***************************************************************************)
(* A condition as the engine receives it: sized says whether len() is      *)
(* defined on it (a number or null has none), items are its elements.      *)
(***************************************************************************)
Cond(items) == [sized |-> TRUE, items |-> items]
Unsized == [sized |-> FALSE, items |-> <<>>]

\* evaluate_condition(facts, cond)
evaluate_condition(f, c) ==
    IF ~c.sized THEN "raise"
    ELSE IF Len(c.items) # 3 THEN "false"
    ELSE LET field == c.items[1]
             op == c.items[2]
             value == c.items[3]
         IN IF ~Hashable(field) THEN "raise"
            ELSE IF field \notin DOMAIN f THEN "false"
            ELSE IF ~Hashable(op) THEN "raise"
            ELSE IF op \notin OPS THEN "false"
            ELSE IF ApplyOp(op, f[field], value) = "T" THEN "true" ELSE "false"

(***************************************************************************)
(* A rule as the engine receives it.  isDict says whether it is a mapping  *)
(* (only a mapping has .get); hasPriority, hasConditions and hasAction     *)
(* say which keys it holds; iterable says whether the value under          *)
(* "conditions" can be iterated (null or a number cannot).                 *)
(***************************************************************************)
Action(decision, reason) == [decision |-> decision, reason |-> reason]

Rule(name, priority, conditions, act) ==
    [isDict |-> TRUE, name |-> name,
     hasPriority |-> TRUE, priority |-> priority,
     hasConditions |-> TRUE, iterable |-> TRUE, conditions |-> conditions,
     hasAction |-> TRUE, action |-> act]

NoKeys == Action("", "")

NotADict ==
    [Rule("", Null, <<>>, NoKeys) EXCEPT !.isDict = FALSE, !.hasPriority = FALSE,
                                         !.hasConditions = FALSE, !.hasAction = FALSE]

\* all(...) over a generator: conditions are evaluated left to right, the
\* first one that is not true ends the iteration, and a raise propagates.
RECURSIVE all_conditions(_, _, _)
all_conditions(f, cs, i) ==
    IF i > Len(cs) THEN "true"
    ELSE LET o == evaluate_condition(f, cs[i])
         IN IF o = "true" THEN all_conditions(f, cs, i + 1) ELSE o

rule_matches_any(f, r) ==
    IF ~r.isDict THEN "raise"
    ELSE IF ~r.hasConditions THEN "true"
    ELSE IF ~r.iterable THEN "raise"
    ELSE IF \E i \in 1..Len(r.conditions) :
                evaluate_condition(f, r.conditions[i]) = "true"
         THEN "true" ELSE "false"

rule_matches(f, r) ==
    IF ~r.isDict THEN "raise"
    ELSE IF ~r.hasConditions THEN "true"
    ELSE IF ~r.iterable THEN "raise"
    ELSE all_conditions(f, r.conditions, 1)

\* The sort key: r.get("priority", 0)
PriorityKey(r) == IF r.hasPriority THEN r.priority ELSE Num(0)

\* [r for r in rules if rule_matches(facts, r)]: the positions kept so far,
\* or "raise" as soon as one rule_matches call raises.
RECURSIVE filter_fired(_, _, _, _)
filter_fired(f, rs, i, acc) ==
    IF i > Len(rs) THEN [status |-> "ok", fired |-> acc]
    ELSE LET m == rule_matches(f, rs[i])
         IN IF m = "raise" THEN [status |-> "raise", fired |-> <<>>]
            ELSE filter_fired(f, rs, i + 1, IF m = "true" THEN Append(acc, i) ELSE acc)

\* sorted() raises TypeError when it has to order two keys that "<" does
\* not order; with keys that are numbers, strings or null, every list of
\* two or more elements holding such a pair makes it do so.
sort_raises(rs, fs) ==
    \E i, j \in 1..Len(fs) :
        i # j /\ PyCompare("<", PriorityKey(rs[fs[i]]), PriorityKey(rs[fs[j]])) = "E"

InsertBeforeTies(rs, sorted, x) ==
    LET ahead == {i \in 1..Len(sorted) :
                    PyCompare(">", PriorityKey(rs[sorted[i]]), PriorityKey(rs[x])) = "T"}
        k == Cardinality(ahead)
    IN SubSeq(sorted, 1, k) \o <<x>> \o SubSeq(sorted, k + 1, Len(sorted))

InsertAscending(rs, sorted, x) ==
    LET ahead == {i \in 1..Len(sorted) :
                    PyCompare("<=", PriorityKey(rs[sorted[i]]), PriorityKey(rs[x])) = "T"}
        k == Cardinality(ahead)
    IN SubSeq(sorted, 1, k) \o <<x>> \o SubSeq(sorted, k + 1, Len(sorted))

\* One step of the stable descending sort: x goes behind every element
\* whose key is greater than or equal to its own.
InsertStable(rs, sorted, x) ==
    LET ahead == {i \in 1..Len(sorted) :
                    PyCompare(">=", PriorityKey(rs[sorted[i]]), PriorityKey(rs[x])) = "T"}
        k == Cardinality(ahead)
    IN SubSeq(sorted, 1, k) \o <<x>> \o SubSeq(sorted, k + 1, Len(sorted))

\* sorted(fired, key=..., reverse=True): stable, elements taken in the
\* order of the fired list.
RECURSIVE sorted_desc(_, _)
sorted_desc(rs, fs) ==
    IF fs = <<>> THEN <<>>
    ELSE InsertStable(rs, sorted_desc(rs, SubSeq(fs, 1, Len(fs) - 1)), fs[Len(fs)])

NoRuleMatched == Action("REVIEW", "No rule matched")

NoAction == Action("REVIEW", "No action")

best_action_all(rs, fs) ==
    IF \A i \in 1..Len(fs) : rs[fs[i]].hasAction THEN rs[fs[1]].action ELSE NoAction

\* fired_sorted[0].get("action", {...})
best_action(rs, fs) ==
    IF rs[fs[1]].hasAction THEN rs[fs[1]].action ELSE NoAction

no_match_result_no_action ==
    [status |-> "ok", action |-> NoAction, fired |-> <<>>]

\* The return for an empty fired list.
no_match_result ==
    [status |-> "ok", action |-> NoRuleMatched, fired |-> <<>>]

Raised == [status |-> "raise", action |-> NoKeys, fired |-> <<>>]

run_rules(f, rs) ==
    LET flt == filter_fired(f, rs, 1, <<>>)
    IN IF flt.status = "raise" THEN Raised
       ELSE IF flt.fired = <<>> THEN no_match_result
       ELSE IF sort_raises(rs, flt.fired) THEN Raised
       ELSE LET fired_sorted == sorted_desc(rs, flt.fired)
            IN [status |-> "ok", action |-> best_action(rs, fired_sorted),
                fired |-> fired_sorted]

(***************************************************************************)
(* DEFAULT_RULES.  Numbers are in tenths: Dec(3, 7) is 3.7.                *)
(***************************************************************************)
Dec(whole, tenths) == Num(10 * whole + tenths)

Triple(field, sym, value) == Cond(<<Str(field), Str(sym), value>>)

DEFAULT_RULES == <<
    Rule("Top merit candidate", Dec(100, 0),
         <<Triple("cgpa", ">=", Dec(3, 7)),
           Triple("co_curricular_score", ">=", Dec(80, 0)),
           Triple("family_income", "<=", Dec(8000, 0)),
           Triple("disciplinary_actions", "==", Dec(0, 0))>>,
         Action("AWARD_FULL",
                "Excellent academic & co-curricular performance, with acceptable need")),
    Rule("Good candidate - partial scholarship", Dec(80, 0),
         <<Triple("cgpa", ">=", Dec(3, 3)),
           Triple("co_curricular_score", ">=", Dec(60, 0)),
           Triple("family_income", "<=", Dec(12000, 0)),
           Triple("disciplinary_actions", "<=", Dec(1, 0))>>,
         Action("AWARD_PARTIAL", "Good academic & involvement record with moderate need")),
    Rule("Need-based review", Dec(70, 0),
         <<Triple("cgpa", ">=", Dec(2, 5)),
           Triple("family_income", "<=", Dec(4000, 0))>>,
         Action("REVIEW", "High need but borderline academic score")),
    Rule("Low CGPA - not eligible", Dec(95, 0),
         <<Triple("cgpa", "<", Dec(2, 5))>>,
         Action("REJECT", "CGPA below minimum scholarship requirement")),
    Rule("Serious disciplinary record", Dec(90, 0),
         <<Triple("disciplinary_actions", ">=", Dec(2, 0))>>,
         Action("REJECT", "Too many disciplinary records")) >>

\* The rules the page evaluates: the parsed payload when it is a JSON
\* array, DEFAULT_RULES when parsing or the isinstance assertion failed.
ActiveRules == IF payload = "list" THEN rules ELSE DEFAULT_RULES

(***************************************************************************)
(* Inputs.                                                                 *)
(***************************************************************************)
Nums == {Num(n) : n \in 0..MaxNum}

Keys == {Str("x"), Str("y")}

FactVals == Nums \cup {Str("a"), List(<<Num(1)>>)}

\* Every fact mapping over a subset of Keys.
FactSets == UNION {[S -> FactVals] : S \in SUBSET Keys}

CondFields == Keys \cup {Str("z"), Num(1), Null, List(<<Str("x")>>)}

CondOps == OPS \cup {Str("~"), Str("x"), Null, List(<<Str("==")>>)}

CondValues ==
    Nums \cup {Str("a"), Str("b"), Null, List(<<>>), List(<<Num(1)>>),
               List(<<Str("a"), Num(0)>>)}

Triples == {Cond(<<f, o, v>>) : f \in CondFields, o \in CondOps, v \in CondValues}

\* Conditions of the wrong shape: no length at all, or a length other than 3.
WrongShape ==
    {Unsized, Cond(<<>>), Cond(<<Str("x")>>), Cond(<<Str("x"), Str("==")>>),
     Cond(<<Str("x"), Str("=="), Num(1), Num(1)>>),
     Cond(<<List(<<>>), Str("==")>>)}

CondUniverse == Triples \cup WrongShape

\* The conditions rules are built from.
RuleConds ==
    {Triple("x", "==", Num(1)), Triple("x", ">=", Num(1)),
     Triple("x", "in", List(<<Num(1), Num(2)>>)), Triple("y", "!=", Num(0)),
     Triple("x", ">=", Str("a")), Triple("z", "==", Num(1)),
     Triple("x", "~", Num(1)), Cond(<<Str("x"), Str("==")>>),
     Unsized, Cond(<<List(<<Str("x")>>), Str("=="), Num(1)>>)}

EmptyRule == Rule("r", Num(1), <<>>, Action("REJECT", "r"))

\* The shapes a rule under construction starts from.
RuleShapes ==
    {EmptyRule, NotADict,
     [EmptyRule EXCEPT !.hasConditions = FALSE],
     [EmptyRule EXCEPT !.iterable = FALSE]}

\* The rules that rule lists are built from.
RuleUniverse ==
    {Rule("a", Num(1), <<>>, Action("AWARD_FULL", "a")),
     Rule("b", Num(1), <<Triple("x", "==", Num(1))>>, Action("REJECT", "b")),
     [Rule("c", Num(2), <<Triple("x", ">=", Num(1))>>, NoKeys) EXCEPT !.hasAction = FALSE],
     [Rule("d", Null, <<>>, Action("AWARD_PARTIAL", "d"))
        EXCEPT !.hasPriority = FALSE, !.hasConditions = FALSE],
     Rule("e", Num(0), <<Triple("x", ">=", Num(1)), Triple("x", "==", Num(1))>>,
          Action("REVIEW", "e")),
     Rule("f", Num(2), <<Triple("x", "==", Num(1))>>, Action("REJECT", "f")),
     Rule("g", Num(3), <<Triple("x", ">=", Str("a"))>>, Action("AWARD_FULL", "g")),
     Rule("h", Null, <<>>, Action("REJECT", "h")),
     NotADict,
     [Rule("i", Num(1), <<>>, Action("REJECT", "i")) EXCEPT !.iterable = FALSE],
     Rule("j", Num(2), <<Triple("x", "==", Num(1)), Unsized>>, Action("REJECT", "j")),
     [Rule("k", Num(2), <<>>, NoKeys) EXCEPT !.hasAction = FALSE]}

RunFacts == {f \in FactSets : DOMAIN f \subseteq {Str("x")} /\ \A k \in DOMAIN f : f[k] \in Nums}

\* The applicant facts of the page.  The number inputs start at 4.0, 100,
\* 3500 and 2.
FieldValues ==
    [cgpa |-> {Dec(2, 0), Dec(2, 6), Dec(3, 8), Dec(4, 0)},
     co_curricular_score |-> {Dec(0, 0), Dec(10, 0), Dec(85, 0), Dec(100, 0)},
     family_income |-> {Dec(3000, 0), Dec(3500, 0), Dec(7000, 0), Dec(20000, 0)},
     disciplinary_actions |-> {Dec(0, 0), Dec(2, 0), Dec(3, 0)}]

FieldNames == DOMAIN FieldValues

WidgetFacts ==
    [k \in {Str(n) : n \in FieldNames} |->
        CASE k.s = "cgpa" -> Dec(4, 0)
          [] k.s = "co_curricular_score" -> Dec(100, 0)
          [] k.s = "family_income" -> Dec(3500, 0)
          [] k.s = "disciplinary_actions" -> Dec(2, 0)]

(***************************************************************************)
(* The state machine.                                                      *)
(***************************************************************************)
NoRuleCalls ==
    /\ rule = EmptyRule
    /\ rmOut = "none"
    /\ status = "none"
    /\ action = NoKeys
    /\ fired = <<>>

NoCalls ==
    /\ cond = Cond(<<>>)
    /\ ecOut = "none"
    /\ NoRuleCalls

\* The text area starts with json.dumps(DEFAULT_RULES).
DefaultPayload ==
    /\ payload = "list"
    /\ rules = DEFAULT_RULES

\* evaluate_condition is called on the condition.
CallEvaluateCondition ==
    /\ ecOut = "none"
    /\ ecOut' = evaluate_condition(facts, cond)
    /\ UNCHANGED <<facts, cond, rule, rmOut, payload, rules, status, action, fired>>

InitCond ==
    /\ facts \in FactSets
    /\ cond \in CondUniverse
    /\ ecOut = "none"
    /\ NoRuleCalls
    /\ DefaultPayload

NextCond == CallEvaluateCondition

SpecCond == InitCond /\ [][NextCond]_vars

\* A rule is put together: a fresh one, then one condition at a time.
NewRule ==
    \E r \in RuleShapes :
        /\ rule' = r
        /\ rmOut' = "none"
        /\ UNCHANGED <<facts, cond, ecOut, payload, rules, status, action, fired>>

AddCondition ==
    \E c \in RuleConds :
        /\ rule.isDict /\ rule.hasConditions /\ rule.iterable
        /\ Len(rule.conditions) < MaxConds
        /\ rule' = [rule EXCEPT !.conditions = Append(@, c)]
        /\ rmOut' = "none"
        /\ UNCHANGED <<facts, cond, ecOut, payload, rules, status, action, fired>>

\* rule_matches is called on the rule.
CallRuleMatches ==
    /\ rmOut' = rule_matches(facts, rule)
    /\ UNCHANGED <<facts, cond, ecOut, rule, payload, rules, status, action, fired>>

InitMatch ==
    /\ facts \in RunFacts \cup {f \in FactSets : DOMAIN f = Keys /\ f[Str("x")] = Str("a")}
    /\ NoCalls
    /\ DefaultPayload

NextMatch == NewRule \/ AddCondition \/ CallRuleMatches

SpecMatch == InitMatch /\ [][NextMatch]_vars

\* The rules text is edited: replaced by something that is no JSON, by
\* JSON that is no array, or by an (empty) array that rules are added to.
SetPayload ==
    \E p \in {"list", "not_list", "bad_json"} :
        /\ payload' = p
        /\ rules' = <<>>
        /\ status' = "none" /\ action' = NoKeys /\ fired' = <<>>
        /\ UNCHANGED <<facts, cond, ecOut, rule, rmOut>>

AppendRule ==
    \E r \in RuleUniverse :
        /\ payload = "list"
        /\ Len(rules) < MaxRules
        /\ rules' = Append(rules, r)
        /\ status' = "none" /\ action' = NoKeys /\ fired' = <<>>
        /\ UNCHANGED <<facts, cond, ecOut, rule, rmOut, payload>>

\* The Evaluate button: run_rules(facts, rules) on the active rules.
Evaluate ==
    LET res == run_rules(facts, ActiveRules)
    IN /\ status' = res.status
       /\ action' = res.action
       /\ fired' = res.fired
       /\ UNCHANGED <<facts, cond, ecOut, rule, rmOut, payload, rules>>

Init ==
    /\ facts \in RunFacts
    /\ NoCalls
    /\ DefaultPayload

Next == SetPayload \/ AppendRule \/ Evaluate

Spec == Init /\ [][Next]_vars

\* A number input of the page is changed, or a fact is left out of the
\* mapping handed to the engine.
SetFact ==
    \E name \in FieldNames : \E v \in FieldValues[name] :
        /\ facts' = [k \in DOMAIN facts \cup {Str(name)} |->
                        IF k = Str(name) THEN v ELSE facts[k]]
        /\ status' = "none" /\ action' = NoKeys /\ fired' = <<>>
        /\ UNCHANGED <<cond, ecOut, rule, rmOut, payload, rules>>

DropFact ==
    \E k \in DOMAIN facts :
        /\ facts' = [j \in DOMAIN facts \ {k} |-> facts[j]]
        /\ status' = "none" /\ action' = NoKeys /\ fired' = <<>>
        /\ UNCHANGED <<cond, ecOut, rule, rmOut, payload, rules>>

InitDefault ==
    /\ facts = WidgetFacts
    /\ NoCalls
    /\ DefaultPayload

NextDefault == SetFact \/ DropFact \/ Evaluate

SpecDefault == InitDefault /\ [][NextDefault]_vars

(***************************************************************************)
(* Properties.                                                             *)
(***************************************************************************)
\* The positions of the active rules for which rule_matches returns True.
Matching ==
    {i \in 1..Len(ActiveRules) : rule_matches(facts, ActiveRules[i]) = "true"}

FiredKey(p) == PriorityKey(ActiveRules[fired[p]])

NonIncreasing ==
    \A p, q \in 1..Len(fired) : p < q => PyCompare(">=", FiredKey(p), FiredKey(q)) = "T"

\* C1: when run_rules returns and at least one rule matches, fired_rules
\* holds exactly the matching rules, each once, with priorities
\* non-increasing from first to last; the returned action is the action of
\* the first of them, and no matching rule has a strictly higher priority
\* than that rule.
C1_FiredExactSortedWinner ==
    (status = "ok" /\ Matching # {}) =>
        /\ Len(fired) = Cardinality(Matching)
        /\ {fired[p] : p \in 1..Len(fired)} = Matching
        /\ NonIncreasing
        /\ ActiveRules[fired[1]].hasAction => action = ActiveRules[fired[1]].action
        /\ \A m \in Matching :
              PyCompare(">", PriorityKey(ActiveRules[m]), FiredKey(1)) # "T"

\* A run where a rule was dropped, two fired, and the sort moved the later
\* rule of the input ahead of the earlier one.
C1_Witness ==
    /\ status = "ok"
    /\ payload = "list"
    /\ Len(fired) >= 2
    /\ Len(fired) < Len(rules)
    /\ fired[1] > fired[2]
    /\ FiredKey(1) # FiredKey(2)
    /\ ActiveRules[fired[1]].hasAction

\* C2: two fired rules of equal priority keep their input order in
\* fired_rules, and when several matching rules share the highest priority
\* the winning action is that of the earliest of them in the input.
C2_TiesKeepInputOrder ==
    status = "ok" =>
        /\ \A p, q \in 1..Len(fired) :
              (p < q /\ FiredKey(p) = FiredKey(q)) => fired[p] < fired[q]
        /\ LET top == {m \in Matching : \A k \in Matching :
                          PyCompare(">=", PriorityKey(ActiveRules[m]),
                                          PriorityKey(ActiveRules[k])) = "T"}
           IN \A m \in top :
                 /\ fired[1] <= m
                 /\ fired[1] \in top
                 /\ ActiveRules[fired[1]].hasAction =>
                        action = ActiveRules[fired[1]].action

\* A run where two rules tie for the highest priority behind a rule of
\* lower priority that comes first in the input.
C2_Witness ==
    /\ status = "ok"
    /\ payload = "list"
    /\ Len(fired) = 3
    /\ FiredKey(1) = FiredKey(2)
    /\ FiredKey(2) # FiredKey(3)
    /\ fired[3] = 1
    /\ ActiveRules[fired[1]].hasAction
    /\ ActiveRules[fired[2]].hasAction
    /\ ActiveRules[fired[1]].action # ActiveRules[fired[2]].action

\* C3: when no rule matches (the empty list included), run_rules returns
\* the action REVIEW / "No rule matched" with an empty fired list; and the
\* fired list it returns is empty only when no rule matches.
C3_NoMatchFallback ==
    status # "none" =>
        /\ (\A i \in 1..Len(ActiveRules) :
                rule_matches(facts, ActiveRules[i]) = "false")
             => /\ status = "ok"
                /\ action = [decision |-> "REVIEW", reason |-> "No rule matched"]
                /\ fired = <<>>
        /\ (status = "ok" /\ fired = <<>>) => Matching = {}

\* A run over two or more rules none of which matches.
C3_Witness ==
    /\ status = "ok"
    /\ payload = "list"
    /\ Len(rules) >= 2
    /\ fired = <<>>
    /\ action.reason = "No rule matched"

\* The conditions rule_matches iterates over: rule.get("conditions", []).
ConditionsOf(r) == IF r.hasConditions THEN r.conditions ELSE <<>>

\* C4: rule_matches is true exactly when evaluate_condition is true for
\* every condition of the rule, and a rule with no conditions matches.
C4_MatchIsConjunction ==
    (rmOut # "none" /\ rule.isDict /\ (rule.hasConditions => rule.iterable)) =>
        /\ rmOut = "true" <=>
              \A i \in 1..Len(ConditionsOf(rule)) :
                  evaluate_condition(facts, ConditionsOf(rule)[i]) = "true"
        /\ ConditionsOf(rule) = <<>> => rmOut = "true"

\* rule_matches returned True for a rule of two or more conditions.
C4_Witness ==
    /\ rmOut = "true"
    /\ rule.hasConditions
    /\ Len(rule.conditions) >= 2
    /\ rule.conditions[1] # rule.conditions[2]

\* A condition that is not a field/operator/value triple with usable keys.
Malformed(c) ==
    \/ ~c.sized
    \/ Len(c.items) # 3
    \/ ~Hashable(c.items[1])
    \/ ~Hashable(c.items[2])

\* C5: evaluate_condition returns False, and never raises, on every
\* malformed condition.
C5_MalformedIsFalse ==
    (ecOut # "none" /\ Malformed(cond)) => ecOut = "false"

IsTriple(c) == c.sized /\ Len(c.items) = 3

\* C6: on a three-element condition whose field is no key of facts or
\* whose operator is none of the eight registered ones, evaluate_condition
\* returns False.
C6_AbsentOrUnknownIsFalse ==
    (ecOut # "none" /\ IsTriple(cond)
        /\ (cond.items[1] \notin DOMAIN facts \/ cond.items[2] \notin OPS))
      => ecOut = "false"

\* The field is a key of facts and the operator is registered.
Applicable(c) ==
    IsTriple(c) /\ c.items[1] \in DOMAIN facts /\ c.items[2] \in OPS

\* The cases in which Python's predicate raises TypeError: an ordering
\* between values of different types or with null, a membership test in a
\* value that is no container, or in a string for something not a string.
TypeMismatch(op, a, b) ==
    \/ op.s \in {">", ">=", "<", "<="} /\ (a.t # b.t \/ b.t = "null")
    \/ op.s \in {"in", "not_in"} /\ b.t \in {"num", "null"}
    \/ op.s \in {"in", "not_in"} /\ b.t = "str" /\ a.t # "str"

\* C7: when the predicate of a registered operator fails on
\* (facts[field], value), evaluate_condition returns False, for not_in as
\* for in.
C7_PredicateFailureIsFalse ==
    (ecOut # "none" /\ Applicable(cond)) =>
        LET op == cond.items[2]
            a == facts[cond.items[1]]
            b == cond.items[3]
        IN (ApplyOp(op, a, b) = "E" \/ TypeMismatch(op, a, b)) => ecOut = "false"

\* evaluate_condition returned for a not_in whose value is a number.
C7_Witness ==
    /\ ecOut = "false"
    /\ Applicable(cond)
    /\ cond.items[2] = Str("not_in")
    /\ cond.items[3].t = "num"

\* C8: the evaluation step always ends with a decision, whatever the
\* accepted payload holds, and a rejected payload is evaluated as
\* DEFAULT_RULES.
C8_EvaluationNeverFaults ==
    status # "none" =>
        /\ status = "ok"
        /\ payload # "list" => fired = run_rules(facts, DEFAULT_RULES).fired

\* C9: when the first rule of the sorted fired list has no action,
\* run_rules returns REVIEW / "No action" with the full sorted fired list;
\* when it has one, that action is returned whatever the rules behind it
\* hold.
C9_NoActionFallback ==
    (status = "ok" /\ fired # <<>>) =>
        LET top == ActiveRules[fired[1]]
        IN /\ ~top.hasAction =>
                /\ action = [decision |-> "REVIEW", reason |-> "No action"]
                /\ Len(fired) = Cardinality(Matching)
                /\ {fired[p] : p \in 1..Len(fired)} = Matching
                /\ NonIncreasing
           /\ top.hasAction => action = top.action

\* A run whose top rule has no action while a rule behind it has one.
C9_Witness ==
    /\ status = "ok"
    /\ payload = "list"
    /\ Len(fired) >= 2
    /\ ~ActiveRules[fired[1]].hasAction
    /\ ActiveRules[fired[2]].hasAction
    /\ action.reason = "No action"

Applicant(cgpa, score, income, disciplinary) ==
    [k \in {Str(n) : n \in FieldNames} |->
        CASE k.s = "cgpa" -> cgpa
          [] k.s = "co_curricular_score" -> score
          [] k.s = "family_income" -> income
          [] k.s = "disciplinary_actions" -> disciplinary]

ScenarioA == Applicant(Dec(3, 8), Dec(85, 0), Dec(7000, 0), Dec(0, 0))

ScenarioB == Applicant(Dec(2, 0), Dec(0, 0), Dec(20000, 0), Dec(0, 0))

ScenarioC == Applicant(Dec(2, 6), Dec(10, 0), Dec(3000, 0), Dec(0, 0))

ScenarioD ==
    [k \in {Str("cgpa"), Str("disciplinary_actions")} |->
        IF k.s = "cgpa" THEN Dec(2, 0) ELSE Dec(3, 0)]

FiredPriorities == [p \in 1..Len(fired) |-> FiredKey(p)]

\* C10: on DEFAULT_RULES, scenario A gives AWARD_FULL, scenario B gives
\* REJECT, scenario C gives REVIEW from the priority-70 rule alone, and
\* scenario D fires exactly the priority-95 and priority-90 rules, in that
\* order, with REJECT from the priority-95 rule.
C10_DefaultScenarios ==
    (status # "none" /\ ActiveRules = DEFAULT_RULES) =>
        /\ facts = ScenarioA => (status = "ok" /\ action.decision = "AWARD_FULL")
        /\ facts = ScenarioB => (status = "ok" /\ action.decision = "REJECT")
        /\ facts = ScenarioC =>
              /\ status = "ok"
              /\ action.decision = "REVIEW"
              /\ FiredPriorities = <<Dec(70, 0)>>
        /\ facts = ScenarioD =>
              /\ status = "ok"
              /\ FiredPriorities = <<Dec(95, 0), Dec(90, 0)>>
              /\ action.decision = "REJECT"
              /\ action = ActiveRules[fired[1]].action

\* Scenario D has been evaluated.
C10_Witness ==
    /\ status = "ok"
    /\ facts = ScenarioD
    /\ Len(fired) = 2

====
